---- MODULE Spec2Model ----
(***************************************************************************)
(* The encoder dispatch facade of src/src/encoding.rs: the tagged-union    *)
(* encoders (MetricEncoder, LabelSetEncoder, LabelEncoder, LabelKeyEncoder,*)
(* LabelValueEncoder) that forward to a text or a protobuf backend, and    *)
(* the built-in EncodeLabelSet / EncodeLabel implementations driving them. *)
(*                                                                         *)
(* The two backends (encoding/text.rs, encoding/protobuf.rs) are not part  *)
(* of the sources at hand; a backend is modelled as the log of the calls   *)
(* it receives, each call answering with a result the environment picks.   *)
(***************************************************************************)
EXTENDS Integers, Sequences, FiniteSets, TLC

VARIABLES
    encs,       \* the facade encoder instances created so far, by id
    backend,    \* per backend format, the calls that backend has received
    calls,      \* the public encoder operations the client has invoked
    pc,         \* position of the built-in EncodeLabelSet::encode
    input,      \* the label set being encoded by the built-in impls
    idx,        \* position of the slice iterator (1-based)
    loc,        \* locals of EncodeLabel::encode for (K, V): le, ke, ve
    label_ret,  \* what the last EncodeLabel::encode returned
    ret,        \* what EncodeLabelSet::encode returned
    parked,     \* the state of a second encode while the first is stepped
    mcalls      \* the EncodeMetric methods invoked on a boxed metric

vars == <<encs, backend, calls, pc, input, idx, loc, label_ret, ret, parked, mcalls>>
aux == <<parked, mcalls>>
driver == <<pc, input, idx, loc, label_ret, ret, aux>>

(* ------------------------------ bounds --------------------------------- *)
MaxLabels == 2
MaxOps == 6
MaxMetricOps == 2

Tags == {"Text", "Protobuf"}
Keys == {"method", "status"}
Strs == {"GET", "200"}
Outcomes == {"Ok", "Err"}

RECURSIVE SeqsUpTo(_, _)
SeqsUpTo(S, n) ==
    IF n = 0 THEN {<<>>}
    ELSE LET shorter == SeqsUpTo(S, n - 1)
         IN  shorter \cup {Append(s, x) : s \in {t \in shorter : Len(t) = n - 1}, x \in S}

Last(s) == s[Len(s)]

(* --------------------------- the backends ------------------------------ *)
\* A backend encoder handle; fmt is the backend that made it.
BackendEncoder(fmt) == [fmt |-> fmt]

\* A backend executing one call: it is appended to the backend's log.
BackendCall(log, call) == Append(log, call)

\* The encoder a backend encoder hands out is of the same backend.
BackendChild(e) == BackendEncoder(e.fmt)

Call(op, self, args, r) == [op |-> op, enc |-> self, args |-> args, ret |-> r]

(* ---------------------------- the facade ------------------------------- *)
\* impl From<text::...Encoder> for ...Encoder
From_text(e) == [tag |-> "Text", inner |-> e]

\* Mutant of From_protobuf: a protobuf encoder is wrapped as the Text variant.
From_protobuf_as_text(e) == [tag |-> "Text", inner |-> e]

\* impl From<protobuf::...Encoder> for ...Encoder
From_protobuf(e) == [tag |-> "Protobuf", inner |-> e]

\* Into::into, resolved by the type of the backend encoder
into(e) == IF e.fmt = "Text" THEN From_text(e) ELSE From_protobuf(e)

\* A facade instance: the wrapper (tag, inner), its stage, whether it is
\* live, moved-from or dropped, and the instance it mutably borrows.
NewEnc(kind, wrapped, parent) ==
    [kind |-> kind, tag |-> wrapped.tag, inner |-> wrapped.inner,
     st |-> "live", parent |-> parent]

IsA(self, kind) == self \in DOMAIN encs /\ encs[self].kind = kind

\* Mutant of Borrowed: an encoder handed out does not borrow its parent.
Borrowed_never(self) == FALSE

\* A live instance is mutably borrowed while an encoder obtained from it lives.
Borrowed(self) ==
    \E c \in DOMAIN encs : encs[c].st = "live" /\ encs[c].parent = self

\* Mutant of Usable: a borrowed instance can be operated.
Usable_while_borrowed(self) ==
    /\ self \in DOMAIN encs
    /\ encs[self].st = "live"

\* The borrow checker admits an operation on an instance that has not been
\* moved from or dropped and is not mutably borrowed.
Usable(self) ==
    /\ self \in DOMAIN encs
    /\ encs[self].st = "live"
    /\ ~Borrowed(self)

\* macro for_both_mut!: match &mut self.0, run the call on the wrapped backend
for_both_mut(self, call) ==
    CASE encs[self].tag = "Text" ->
            LET e == encs[self].inner
            IN  [backend EXCEPT ![e.fmt] = BackendCall(@, call)]
      [] encs[self].tag = "Protobuf" ->
            LET e == encs[self].inner
            IN  [backend EXCEPT ![e.fmt] = BackendCall(@, call)]

\* macro for_both!: match self.0 by value, run the call on the wrapped backend
for_both(self, call) ==
    CASE encs[self].tag = "Text" ->
            LET e == encs[self].inner
            IN  [backend EXCEPT ![e.fmt] = BackendCall(@, call)]
      [] encs[self].tag = "Protobuf" ->
            LET e == encs[self].inner
            IN  [backend EXCEPT ![e.fmt] = BackendCall(@, call)]

\* What the backend answered to the call just forwarded by self.
Answer(self) == Last(backend'[encs[self].inner.fmt]).ret

\* The client-side record of one public operation.
Invoked(self, op, args, r, new) ==
    calls' = Append(calls, [op |-> op, enc |-> self, args |-> args,
                            ret |-> r, new |-> new])

\* Mutant of Consume: the method takes &mut self and moves nothing.
Consume_by_ref(self) == encs

\* A method taking self by value moves the instance.
Consume(self) == [encs EXCEPT ![self].st = "moved"]

\* A method taking &mut self leaves the instance with its owner.
Keep(self) == encs

\* An encoder going out of scope.
DropAll(S) ==
    [e \in DOMAIN encs |->
        IF e \in S /\ encs[e].st = "live"
        THEN [encs[e] EXCEPT !.st = "dropped"] ELSE encs[e]]

(* --------------------- MetricEncoder operations ------------------------ *)
\* Every operation takes the instance, its arguments and r, the result the
\* backend answers with; the facade returns what the backend answered.

\* MetricEncoder::encode_counter_f64(&mut self, v, exemplar)
encode_counter_f64(self, v, exemplar, r) ==
    /\ IsA(self, "MetricEncoder") /\ Usable(self)
    /\ backend' = for_both_mut(self, Call("encode_counter_f64", self, <<v, exemplar>>, r))
    /\ encs' = Keep(self)
    /\ Invoked(self, "encode_counter_f64", <<v, exemplar>>, Answer(self), 0)

\* MetricEncoder::encode_counter_u64(&mut self, v, exemplar)
encode_counter_u64(self, v, exemplar, r) ==
    /\ IsA(self, "MetricEncoder") /\ Usable(self)
    /\ backend' = for_both_mut(self, Call("encode_counter_u64", self, <<v, exemplar>>, r))
    /\ encs' = Keep(self)
    /\ Invoked(self, "encode_counter_u64", <<v, exemplar>>, Answer(self), 0)

\* MetricEncoder::encode_gauge_i64(&mut self, v)
encode_gauge_i64(self, v, r) ==
    /\ IsA(self, "MetricEncoder") /\ Usable(self)
    /\ backend' = for_both_mut(self, Call("encode_gauge_i64", self, <<v>>, r))
    /\ encs' = Keep(self)
    /\ Invoked(self, "encode_gauge_i64", <<v>>, Answer(self), 0)

\* Mutant of encode_gauge_f64: the call is forwarded to encode_gauge_i64.
encode_gauge_f64_as_i64(self, v, r) ==
    /\ IsA(self, "MetricEncoder") /\ Usable(self)
    /\ backend' = for_both_mut(self, Call("encode_gauge_i64", self, <<v>>, r))
    /\ encs' = Keep(self)
    /\ Invoked(self, "encode_gauge_f64", <<v>>, Answer(self), 0)

\* MetricEncoder::encode_gauge_f64(&mut self, v)
encode_gauge_f64(self, v, r) ==
    /\ IsA(self, "MetricEncoder") /\ Usable(self)
    /\ backend' = for_both_mut(self, Call("encode_gauge_f64", self, <<v>>, r))
    /\ encs' = Keep(self)
    /\ Invoked(self, "encode_gauge_f64", <<v>>, Answer(self), 0)

\* MetricEncoder::encode_info(&mut self, label_set)
encode_info(self, label_set, r) ==
    /\ IsA(self, "MetricEncoder") /\ Usable(self)
    /\ backend' = for_both_mut(self, Call("encode_info", self, <<label_set>>, r))
    /\ encs' = Keep(self)
    /\ Invoked(self, "encode_info", <<label_set>>, Answer(self), 0)

\* The buckets in ascending order of their upper bound.
Ascending(b) ==
    CHOOSE t \in [1..Len(b) -> {b[i] : i \in 1..Len(b)}] :
        /\ {t[i] : i \in 1..Len(b)} = {b[i] : i \in 1..Len(b)}
        /\ \A i \in 1..Len(b) - 1 : t[i][1] <= t[i + 1][1]

\* Mutant of encode_histogram: the buckets are sorted before they are forwarded.
encode_histogram_sorted(self, sum, count, buckets, exemplars, r) ==
    /\ IsA(self, "MetricEncoder") /\ Usable(self)
    /\ backend' = for_both_mut(self, Call("encode_histogram", self,
                                          <<sum, count, Ascending(buckets), exemplars>>, r))
    /\ encs' = Keep(self)
    /\ Invoked(self, "encode_histogram", <<sum, count, buckets, exemplars>>,
               Answer(self), 0)

\* MetricEncoder::encode_histogram(&mut self, sum, count, buckets, exemplars)
encode_histogram(self, sum, count, buckets, exemplars, r) ==
    /\ IsA(self, "MetricEncoder") /\ Usable(self)
    /\ backend' = for_both_mut(self, Call("encode_histogram", self,
                                          <<sum, count, buckets, exemplars>>, r))
    /\ encs' = Keep(self)
    /\ Invoked(self, "encode_histogram", <<sum, count, buckets, exemplars>>,
               Answer(self), 0)

\* MetricEncoder::encode_family(&'c mut self, label_set) -> Result<MetricEncoder<'c, 'd>>:
\* on Ok the backend's nested encoder is wrapped (.map(Into::into)) and borrows self.
encode_family(self, label_set, r) ==
    /\ IsA(self, "MetricEncoder") /\ Usable(self)
    /\ backend' = for_both_mut(self, Call("encode_family", self, <<label_set>>, r))
    /\ IF Answer(self) = "Ok"
       THEN /\ encs' = Append(Keep(self),
                              NewEnc("MetricEncoder", into(BackendChild(encs[self].inner)), self))
            /\ Invoked(self, "encode_family", <<label_set>>, "Ok", Len(encs) + 1)
       ELSE /\ encs' = Keep(self)
            /\ Invoked(self, "encode_family", <<label_set>>, Answer(self), 0)

(* ------------------- label encoder operations -------------------------- *)
\* LabelSetEncoder::encode_label(&mut self) -> LabelEncoder: no Result; the
\* backend's label encoder is wrapped (.into()) and borrows self.
encode_label(self) ==
    /\ IsA(self, "LabelSetEncoder") /\ Usable(self)
    /\ backend' = for_both_mut(self, Call("encode_label", self, <<>>, "LabelEncoder"))
    /\ encs' = Append(Keep(self),
                      NewEnc("LabelEncoder", into(BackendChild(encs[self].inner)), self))
    /\ Invoked(self, "encode_label", <<>>, Answer(self), Len(encs) + 1)

\* LabelEncoder::encode_label_key(&mut self) -> Result<LabelKeyEncoder>
encode_label_key(self, r) ==
    /\ IsA(self, "LabelEncoder") /\ Usable(self)
    /\ backend' = for_both_mut(self, Call("encode_label_key", self, <<>>, r))
    /\ IF Answer(self) = "Ok"
       THEN /\ encs' = Append(Keep(self),
                              NewEnc("LabelKeyEncoder", into(BackendChild(encs[self].inner)), self))
            /\ Invoked(self, "encode_label_key", <<>>, "Ok", Len(encs) + 1)
       ELSE /\ encs' = Keep(self)
            /\ Invoked(self, "encode_label_key", <<>>, Answer(self), 0)

\* impl Write for LabelKeyEncoder: write_str(&mut self, s)
key_write_str(self, s, r) ==
    /\ IsA(self, "LabelKeyEncoder") /\ Usable(self)
    /\ backend' = for_both_mut(self, Call("write_str", self, <<s>>, r))
    /\ encs' = Keep(self)
    /\ Invoked(self, "write_str", <<s>>, Answer(self), 0)

\* Mutant of encode_label_value: a failed call leaves the key encoder with
\* its owner.
encode_label_value_err_keeps(self, r) ==
    /\ IsA(self, "LabelKeyEncoder") /\ Usable(self)
    /\ backend' = for_both(self, Call("encode_label_value", self, <<>>, r))
    /\ IF Answer(self) = "Ok"
       THEN /\ encs' = Append(Consume(self),
                              NewEnc("LabelValueEncoder", into(BackendChild(encs[self].inner)),
                                     encs[self].parent))
            /\ Invoked(self, "encode_label_value", <<>>, "Ok", Len(encs) + 1)
       ELSE /\ encs' = Keep(self)
            /\ Invoked(self, "encode_label_value", <<>>, Answer(self), 0)

\* LabelKeyEncoder::encode_label_value(self) -> Result<LabelValueEncoder<'a>>:
\* the key encoder is moved; the value encoder keeps the key encoder's borrow.
encode_label_value(self, r) ==
    /\ IsA(self, "LabelKeyEncoder") /\ Usable(self)
    /\ backend' = for_both(self, Call("encode_label_value", self, <<>>, r))
    /\ IF Answer(self) = "Ok"
       THEN /\ encs' = Append(Consume(self),
                              NewEnc("LabelValueEncoder", into(BackendChild(encs[self].inner)),
                                     encs[self].parent))
            /\ Invoked(self, "encode_label_value", <<>>, "Ok", Len(encs) + 1)
       ELSE /\ encs' = Consume(self)
            /\ Invoked(self, "encode_label_value", <<>>, Answer(self), 0)

\* Mutant of value_write_str: the result of the backend's write is discarded.
value_write_str_swallowed(self, s, r) ==
    /\ IsA(self, "LabelValueEncoder") /\ Usable(self)
    /\ backend' = for_both_mut(self, Call("write_str", self, <<s>>, r))
    /\ encs' = Keep(self)
    /\ Invoked(self, "write_str", <<s>>, "Ok", 0)

\* impl Write for LabelValueEncoder: write_str(&mut self, s)
value_write_str(self, s, r) ==
    /\ IsA(self, "LabelValueEncoder") /\ Usable(self)
    /\ backend' = for_both_mut(self, Call("write_str", self, <<s>>, r))
    /\ encs' = Keep(self)
    /\ Invoked(self, "write_str", <<s>>, Answer(self), 0)

\* LabelValueEncoder::finish(self) -> Result<()>: the value encoder is moved.
finish(self, r) ==
    /\ IsA(self, "LabelValueEncoder") /\ Usable(self)
    /\ backend' = for_both(self, Call("finish", self, <<>>, r))
    /\ encs' = Consume(self)
    /\ Invoked(self, "finish", <<>>, Answer(self), 0)

(* ------------------- the built-in label set impls ---------------------- *)
Labels == Keys \X Strs

\* The label sets the built-in impls are run on: a fixed-size array, a
\* slice, a Vec (buffer and length) and the unit type.
Inputs ==
    {[kind |-> "array", n |-> Len(s), elems |-> s] : s \in SeqsUpTo(Labels, MaxLabels)}
    \cup {[kind |-> "slice", elems |-> s] : s \in SeqsUpTo(Labels, MaxLabels)}
    \cup {[kind |-> "vec", buf |-> s, len |-> Len(s)] : s \in SeqsUpTo(Labels, MaxLabels)}
    \cup {[kind |-> "unit"]}

\* <[T; N] as AsRef<[T]>>::as_ref: the N elements, in order
as_ref(a) == [i \in 1..a.n |-> a.elems[i]]

\* Vec::as_slice: the first len elements of the buffer
as_slice(v) == SubSeq(v.buf, 1, v.len)

\* The slice the slice impl of EncodeLabelSet runs on, for each container.
slice_of(c) ==
    CASE c.kind = "array" -> as_ref(c)
      [] c.kind = "vec" -> as_slice(c)
      [] c.kind = "slice" -> c.elems
      [] c.kind = "unit" -> <<>>

\* The LabelSetEncoder handed to EncodeLabelSet::encode.
encoder == 1

NoLocals == [le |-> 0, ke |-> 0, ve |-> 0]

\* No second encode is under way.
NoOne == [id |-> 0]

\* Mutant of iter_at: the slice is walked from its end.
iter_rev(s, i) == s[Len(s) + 1 - i]

\* for label in self.iter(): the element the iterator yields at position i
iter_at(s, i) == s[i]

\* impl EncodeLabelSet for [T; N]: self.as_ref().encode(encoder)
EncodeLabelSet_array ==
    /\ pc = "start" /\ input.kind = "array"
    /\ pc' = "slice"
    /\ UNCHANGED <<encs, backend, calls, input, aux, idx, loc, label_ret, ret>>

\* impl EncodeLabelSet for Vec<T>: self.as_slice().encode(encoder)
EncodeLabelSet_vec ==
    /\ pc = "start" /\ input.kind = "vec"
    /\ pc' = "slice"
    /\ UNCHANGED <<encs, backend, calls, input, aux, idx, loc, label_ret, ret>>

\* impl EncodeLabelSet for (): Ok(()); the encoder goes out of scope unused
EncodeLabelSet_unit ==
    /\ pc = "start" /\ input.kind = "unit"
    /\ encs' = DropAll({encoder})
    /\ ret' = "Ok"
    /\ pc' = "done"
    /\ UNCHANGED <<backend, calls, input, aux, idx, loc, label_ret>>

\* Mutant of slice_entry: an empty slice is refused instead of skipped.
slice_entry_refuses_empty(s) ==
    IF Len(s) = 0
    THEN /\ encs' = DropAll({encoder})
         /\ ret' = "Err"
         /\ pc' = "done"
         /\ idx' = idx
    ELSE /\ idx' = 1
         /\ pc' = "iter"
         /\ UNCHANGED <<encs, ret>>

\* Mutant of slice_entry: the walk starts at the first element only while no
\* other encode has completed, at the second afterwards.
slice_entry_resumes(s) ==
    IF Len(s) = 0
    THEN /\ encs' = DropAll({encoder})
         /\ ret' = "Ok"
         /\ pc' = "done"
         /\ idx' = idx
    ELSE /\ idx' = IF parked.id # 0 /\ parked.pc = "done" THEN 2 ELSE 1
         /\ pc' = "iter"
         /\ UNCHANGED <<encs, ret>>

\* impl EncodeLabelSet for &[T], entry: if self.is_empty() { return Ok(()) }
slice_entry(s) ==
    IF Len(s) = 0
    THEN /\ encs' = DropAll({encoder})
         /\ ret' = "Ok"
         /\ pc' = "done"
         /\ idx' = idx
    ELSE /\ idx' = 1
         /\ pc' = "iter"
         /\ UNCHANGED <<encs, ret>>

EncodeLabelSet_slice ==
    /\ \/ pc = "start" /\ input.kind = "slice"
       \/ pc = "slice"
    /\ slice_entry(slice_of(input))
    /\ UNCHANGED <<backend, calls, input, aux, loc, label_ret>>

\* for label in self.iter() { label.encode(encoder.encode_label()) ... }
Slice_next ==
    /\ pc = "iter" /\ idx <= Len(slice_of(input))
    /\ encode_label(encoder)
    /\ loc' = [NoLocals EXCEPT !.le = Len(encs) + 1]
    /\ pc' = "key"
    /\ UNCHANGED <<input, aux, idx, label_ret, ret>>

\* the loop is exhausted: Ok(()); the encoder goes out of scope
Slice_end ==
    /\ pc = "iter" /\ idx > Len(slice_of(input))
    /\ encs' = DropAll({encoder})
    /\ ret' = "Ok"
    /\ pc' = "done"
    /\ UNCHANGED <<backend, calls, input, aux, idx, loc, label_ret>>

\* the ? of a step of EncodeLabel::encode: go on, or return the error
try(r, next) == IF r = "Ok" THEN next ELSE "label_err"

\* let mut label_key_encoder = encoder.encode_label_key()?;
Label_key ==
    /\ pc = "key"
    /\ \E r \in Outcomes : encode_label_key(loc.le, r)
    /\ loc' = [loc EXCEPT !.ke = Last(calls').new]
    /\ pc' = try(Last(calls').ret, "key_encode")
    /\ UNCHANGED <<input, aux, idx, label_ret, ret>>

\* impl EncodeLabelKey for &str: encoder.write_str(self)?; Ok(())
EncodeLabelKey_str(ke, key, r) == key_write_str(ke, key, r)

\* impl EncodeLabelValue for &str: encoder.write_str(self)?; Ok(())
EncodeLabelValue_str(ve, value, r) == value_write_str(ve, value, r)

\* Mutant of Label_key_encode: the value is written where the key belongs.
Label_key_encode_swapped ==
    /\ pc = "key_encode"
    /\ \E r \in Outcomes :
          EncodeLabelKey_str(loc.ke, iter_at(slice_of(input), idx)[2], r)
    /\ pc' = try(Last(calls').ret, "value")
    /\ UNCHANGED <<input, aux, idx, loc, label_ret, ret>>

\* key.encode(&mut label_key_encoder)?;
Label_key_encode ==
    /\ pc = "key_encode"
    /\ \E r \in Outcomes :
          EncodeLabelKey_str(loc.ke, iter_at(slice_of(input), idx)[1], r)
    /\ pc' = try(Last(calls').ret, "value")
    /\ UNCHANGED <<input, aux, idx, loc, label_ret, ret>>

\* let mut label_value_encoder = label_key_encoder.encode_label_value()?;
Label_value ==
    /\ pc = "value"
    /\ \E r \in Outcomes : encode_label_value(loc.ke, r)
    /\ loc' = [loc EXCEPT !.ve = Last(calls').new]
    /\ pc' = try(Last(calls').ret, "value_encode")
    /\ UNCHANGED <<input, aux, idx, label_ret, ret>>

\* value.encode(&mut label_value_encoder)?;
Label_value_encode ==
    /\ pc = "value_encode"
    /\ \E r \in Outcomes :
          EncodeLabelValue_str(loc.ve, iter_at(slice_of(input), idx)[2], r)
    /\ pc' = try(Last(calls').ret, "finish")
    /\ UNCHANGED <<input, aux, idx, loc, label_ret, ret>>

\* Mutant of Label_finish: the value encoder is never finished.
Label_finish_forgotten ==
    /\ pc = "finish"
    /\ pc' = "label_ok"
    /\ UNCHANGED <<encs, backend, calls, input, aux, idx, loc, label_ret, ret>>

\* label_value_encoder.finish()?;
Label_finish ==
    /\ pc = "finish"
    /\ \E r \in Outcomes : finish(loc.ve, r)
    /\ pc' = try(Last(calls').ret, "label_ok")
    /\ UNCHANGED <<input, aux, idx, loc, label_ret, ret>>

\* EncodeLabel::encode returns: Ok(()) at its end, or the error of a ?;
\* its label encoder and whatever key or value encoder is live are dropped.
Label_return ==
    /\ pc \in {"label_ok", "label_err"}
    /\ encs' = DropAll({loc.le, loc.ke, loc.ve})
    /\ label_ret' = IF pc = "label_ok" THEN "Ok" ELSE "Err"
    /\ loc' = NoLocals
    /\ pc' = "try"
    /\ UNCHANGED <<backend, calls, input, aux, idx, ret>>

\* Mutant of slice_try: the result of label.encode is ignored.
slice_try_ignore(r) ==
    /\ idx' = idx + 1
    /\ pc' = "iter"
    /\ UNCHANGED <<encs, ret>>

\* label.encode(..)? in the slice impl: an error returns from the loop
slice_try(r) ==
    IF r = "Ok"
    THEN /\ idx' = idx + 1
         /\ pc' = "iter"
         /\ UNCHANGED <<encs, ret>>
    ELSE /\ encs' = DropAll({encoder})
         /\ ret' = r
         /\ pc' = "done"
         /\ idx' = idx

\* Mutant of Slice_try: the position of the walk is kept in a place every
\* encode shares.
Slice_try_shared ==
    /\ pc = "try"
    /\ slice_try(label_ret)
    /\ parked' = IF parked.id # 0 THEN [parked EXCEPT !.idx = idx'] ELSE parked
    /\ UNCHANGED <<backend, calls, input, mcalls, loc, label_ret>>

Slice_try ==
    /\ pc = "try"
    /\ slice_try(label_ret)
    /\ UNCHANGED <<backend, calls, input, aux, loc, label_ret>>

Init ==
    /\ \E t \in Tags :
          encs = <<NewEnc("LabelSetEncoder", into(BackendEncoder(t)), 0)>>
    /\ backend = [t \in Tags |-> <<>>]
    /\ calls = <<>>
    /\ pc = "start"
    /\ input \in Inputs
    /\ idx = 0
    /\ loc = NoLocals
    /\ label_ret = "none"
    /\ ret = "none"
    /\ parked = NoOne
    /\ mcalls = <<>>

Next ==
    \/ EncodeLabelSet_array
    \/ EncodeLabelSet_vec
    \/ EncodeLabelSet_unit
    \/ EncodeLabelSet_slice
    \/ Slice_next
    \/ Slice_end
    \/ Label_key
    \/ Label_key_encode
    \/ Label_value
    \/ Label_value_encode
    \/ Label_finish
    \/ Label_return
    \/ Slice_try

Spec == Init /\ [][Next]_vars

(* ------------- properties of the built-in impls (Spec) ----------------- *)
\* The elements a container holds, read off the container itself.
Elems(c) ==
    CASE c.kind = "array" -> c.elems
      [] c.kind = "vec" -> c.buf
      [] c.kind = "slice" -> c.elems
      [] c.kind = "unit" -> <<>>

\* One invoked operation, as (name, stage of the encoder, arguments).
Shape(c) == <<c.op, encs[c.enc].kind, c.args>>

Shapes(s) == [i \in 1..Len(s) |-> Shape(s[i])]

IsPrefix(s, t) == Len(s) <= Len(t) /\ s = SubSeq(t, 1, Len(s))

\* The operations EncodeLabel::encode is to perform for the pair l.
ExpectedLabel(l) ==
    << <<"encode_label_key", "LabelEncoder", <<>>>>,
       <<"write_str", "LabelKeyEncoder", <<l[1]>>>>,
       <<"encode_label_value", "LabelKeyEncoder", <<>>>>,
       <<"write_str", "LabelValueEncoder", <<l[2]>>>>,
       <<"finish", "LabelValueEncoder", <<>>>> >>

\* The operations on label encoder le and on the key and value encoder
\* obtained from it, in the order they were invoked.
LabelOps(le) ==
    SelectSeq(calls, LAMBDA c :
        \/ c.enc = le
        \/ /\ encs[c.enc].kind \in {"LabelKeyEncoder", "LabelValueEncoder"}
           /\ encs[c.enc].parent = le)

\* The label encoder the j-th encode_label handed out.
LabelEnc(j) == SelectSeq(calls, LAMBDA c : c.op = "encode_label")[j].new

Started == Len(SelectSeq(calls, LAMBDA c : c.op = "encode_label"))

\* EncodeLabel::encode of the j-th element has returned Ok.
Encoded(j) ==
    \/ j < idx
    \/ j = idx /\ (pc = "label_ok" \/ (pc = "try" /\ label_ret = "Ok"))

\* C1: a successful EncodeLabel::encode of a (key, value) pair has performed
\* exactly encode_label_key, the key's write into the key encoder that call
\* returned, encode_label_value on it, the value's write into the value
\* encoder that call returned, and finish, all Ok, in this order; an encode
\* still under way or failed has performed a prefix of this sequence.
C1_LabelSequence ==
    \A j \in 1..Started :
        LET ops == LabelOps(LabelEnc(j))
            l == Elems(input)[j]
        IN  /\ IsPrefix(Shapes(ops), ExpectedLabel(l))
            /\ Len(ops) >= 2 => ops[2].enc = ops[1].new
            /\ Len(ops) >= 3 => ops[3].enc = ops[1].new
            /\ Len(ops) >= 4 => ops[4].enc = ops[3].new
            /\ Len(ops) >= 5 => ops[5].enc = ops[3].new
            /\ Encoded(j) =>
                  /\ Len(ops) = 5
                  /\ \A i \in 1..5 : ops[i].ret = "Ok"

\* C1 witness: the encode of a pair has just returned Ok after its five steps.
C1_Witness ==
    /\ pc = "try" /\ label_ret = "Ok"
    /\ Len(LabelOps(LabelEnc(idx))) = 5

\* C7: a failed step is the last encoder operation performed: the label's
\* encode returns the error, the label set's encode returns the error, and
\* neither ever returns Ok once a step has failed.
C7_FailureAborts ==
    /\ \A i \in 1..Len(calls) : calls[i].ret = "Err" => i = Len(calls)
    /\ (\E i \in 1..Len(calls) : calls[i].ret = "Err") =>
          /\ pc \in {"label_err", "try", "done"}
          /\ pc = "try" => label_ret = "Err"
          /\ pc = "done" => ret = "Err"
          /\ ret # "Ok"

\* C7 witness: the value write of the second label failed and the encode of
\* the label set has returned the error.
C7_Witness ==
    /\ pc = "done" /\ ret = "Err" /\ idx = 2
    /\ Last(calls).op = "write_str" /\ Last(calls).ret = "Err"
    /\ encs[Last(calls).enc].kind = "LabelValueEncoder"

\* C9: for an empty array, slice or Vec and for the unit type, the encode
\* invokes no encoder operation, leaves both backends as they were and
\* returns Ok.
C9_EmptyIsNoOp ==
    Elems(input) = <<>> =>
        /\ calls = <<>>
        /\ \A t \in Tags : backend[t] = <<>>
        /\ ret # "Err"
        /\ pc = "done" => ret = "Ok"

\* C9 witness: the encode of an empty Vec has returned.
C9_Witness == pc = "done" /\ input.kind = "vec" /\ Elems(input) = <<>>

RECURSIVE ExpectedSet(_)
\* The operations the encode of the label sequence s is to perform.
ExpectedSet(s) ==
    IF s = <<>> THEN <<>>
    ELSE <<<<"encode_label", "LabelSetEncoder", <<>>>>>>
         \o ExpectedLabel(s[1]) \o ExpectedSet(Tail(s))

\* C10: a successful encode of a slice, array or Vec of n labels has called
\* encode_label n times and performed, label by label in index order, the
\* operations of each element on that element's own label encoder, each
\* label finished before the next one is started; the sequence depends on
\* the elements only, not on the kind of container.
C10_InOrder ==
    (pc = "done" /\ ret = "Ok") =>
        /\ Started = Len(Elems(input))
        /\ Shapes(calls) = ExpectedSet(Elems(input))
        /\ \A j \in 1..Started :
              /\ calls[6 * j - 5].op = "encode_label"
              /\ calls[6 * j - 5].new = LabelEnc(j)
              /\ \A i \in (6 * j - 4)..(6 * j) :
                    calls[i].enc = LabelEnc(j) \/ encs[calls[i].enc].parent = LabelEnc(j)
              /\ \A k \in 1..Started : k # j => LabelEnc(k) # LabelEnc(j)

\* C10 witness: an array of two different labels has been encoded.
C10_Witness ==
    /\ pc = "done" /\ ret = "Ok" /\ input.kind = "array"
    /\ Len(Elems(input)) = 2 /\ Elems(input)[1] # Elems(input)[2]

\* C3 as stated: every value encoder that has ceased to exist was finished.
C3_AlwaysFinished ==
    \A v \in DOMAIN encs :
        (encs[v].kind = "LabelValueEncoder" /\ encs[v].st # "live") =>
            \E i \in 1..Len(calls) : calls[i].op = "finish" /\ calls[i].enc = v

\* C3: a value encoder is created only by an encode_label_value that a key
\* encoder answered with Ok; finish moves it and is its last operation; it
\* is released either by finish or by being dropped unfinished, which the
\* built-in EncodeLabel does exactly when the value's write failed; and when
\* EncodeLabel::encode returns Ok its value encoder has been finished.
C3_ValueEncoderLifecycle ==
    /\ \A v \in DOMAIN encs : encs[v].kind = "LabelValueEncoder" =>
          LET on == SelectSeq(calls, LAMBDA c : c.enc = v)
              fin == SelectSeq(calls, LAMBDA c : c.enc = v /\ c.op = "finish")
          IN  /\ \E i \in 1..Len(calls) :
                    /\ calls[i].new = v /\ calls[i].op = "encode_label_value"
                    /\ calls[i].ret = "Ok"
                    /\ encs[calls[i].enc].kind = "LabelKeyEncoder"
              /\ encs[v].st = "moved" <=> Len(fin) = 1
              /\ Len(fin) <= 1
              /\ Len(fin) = 1 => Last(on).op = "finish"
              /\ encs[v].st = "dropped" =>
                    /\ Len(fin) = 0
                    /\ Len(on) > 0 /\ Last(on).op = "write_str" /\ Last(on).ret = "Err"
    /\ \A j \in 1..Started : Encoded(j) =>
          \E v \in DOMAIN encs :
              /\ encs[v].kind = "LabelValueEncoder" /\ encs[v].parent = LabelEnc(j)
              /\ encs[v].st = "moved"

\* C3 witness: a value encoder was dropped without finish after its write failed.
C3_Witness ==
    \E v \in DOMAIN encs :
        /\ encs[v].kind = "LabelValueEncoder" /\ encs[v].st = "dropped"
        /\ Last(calls).enc = v /\ Last(calls).ret = "Err"

(* ----------------- any client of the public operations ----------------- *)
\* Arguments the client passes: values per numeric type, exemplars, label
\* sets and bucket sequences (upper bound, count), one of them out of order.
F64s == {15, 25}
U64s == {42}
I64s == {-7}
NoExemplar == [some |-> FALSE]
AnExemplar == [some |-> TRUE, label_set |-> <<<<"method", "GET">>>>, value |-> 15]
CounterArgsF64 == {<<15, NoExemplar>>, <<25, AnExemplar>>}
CounterArgsU64 == {<<42, AnExemplar>>}
LabelSetArgs == {<<<<"status", "200">>>>}
HistogramArgs ==
    {<<42, 5, <<<<10, 3>>, <<20, 5>>>>, NoExemplar>>,
     <<42, 5, <<<<20, 5>>, <<10, 3>>>>, [some |-> TRUE, at |-> 1, exemplar |-> AnExemplar]>>}

MetricOps ==
    {"encode_counter_f64", "encode_counter_u64", "encode_gauge_i64", "encode_gauge_f64",
     "encode_info", "encode_histogram", "encode_family"}

MetricCalls == Len(SelectSeq(calls, LAMBDA c : c.op \in MetricOps))

\* The client may go on invoking operations (the bound of the model).
MayCall == Len(calls) < MaxOps /\ MetricCalls < MaxMetricOps

Api_counter_f64 ==
    /\ pc = "api" /\ MayCall
    /\ \E self \in DOMAIN encs, a \in CounterArgsF64, r \in Outcomes :
          encode_counter_f64(self, a[1], a[2], r)
    /\ UNCHANGED driver

Api_counter_u64 ==
    /\ pc = "api" /\ MayCall
    /\ \E self \in DOMAIN encs, a \in CounterArgsU64, r \in Outcomes :
          encode_counter_u64(self, a[1], a[2], r)
    /\ UNCHANGED driver

Api_gauge_i64 ==
    /\ pc = "api" /\ MayCall
    /\ \E self \in DOMAIN encs, v \in I64s, r \in Outcomes : encode_gauge_i64(self, v, r)
    /\ UNCHANGED driver

Api_gauge_f64 ==
    /\ pc = "api" /\ MayCall
    /\ \E self \in DOMAIN encs, v \in F64s, r \in Outcomes : encode_gauge_f64(self, v, r)
    /\ UNCHANGED driver

Api_info ==
    /\ pc = "api" /\ MayCall
    /\ \E self \in DOMAIN encs, ls \in LabelSetArgs, r \in Outcomes : encode_info(self, ls, r)
    /\ UNCHANGED driver

Api_histogram ==
    /\ pc = "api" /\ MayCall
    /\ \E self \in DOMAIN encs, a \in HistogramArgs, r \in Outcomes :
          encode_histogram(self, a[1], a[2], a[3], a[4], r)
    /\ UNCHANGED driver

Api_family ==
    /\ pc = "api" /\ MayCall
    /\ \E self \in DOMAIN encs, ls \in LabelSetArgs, r \in Outcomes :
          encode_family(self, ls, r)
    /\ UNCHANGED driver

Api_label ==
    /\ pc = "api" /\ MayCall
    /\ \E self \in DOMAIN encs : encode_label(self)
    /\ UNCHANGED driver

Api_label_key ==
    /\ pc = "api" /\ MayCall
    /\ \E self \in DOMAIN encs, r \in Outcomes : encode_label_key(self, r)
    /\ UNCHANGED driver

Api_key_write ==
    /\ pc = "api" /\ MayCall
    /\ \E self \in DOMAIN encs, s \in Keys, r \in Outcomes : key_write_str(self, s, r)
    /\ UNCHANGED driver

Api_label_value ==
    /\ pc = "api" /\ MayCall
    /\ \E self \in DOMAIN encs, r \in Outcomes : encode_label_value(self, r)
    /\ UNCHANGED driver

Api_value_write ==
    /\ pc = "api" /\ MayCall
    /\ \E self \in DOMAIN encs, s \in Strs, r \in Outcomes : value_write_str(self, s, r)
    /\ UNCHANGED driver

Api_finish ==
    /\ pc = "api" /\ MayCall
    /\ \E self \in DOMAIN encs, r \in Outcomes : finish(self, r)
    /\ UNCHANGED driver

\* An encoder the client owns goes out of scope; the borrow checker admits
\* it only when no encoder obtained from it is still live.
Api_drop ==
    /\ pc = "api"
    /\ \E self \in DOMAIN encs :
          /\ Usable(self)
          /\ encs' = DropAll({self})
    /\ UNCHANGED <<backend, calls>>
    /\ UNCHANGED driver

\* The client is handed a MetricEncoder (EncodeMetric::encode) or a
\* LabelSetEncoder (EncodeLabelSet::encode) of either backend.
InitApi ==
    /\ \E t \in Tags, k \in {"MetricEncoder", "LabelSetEncoder"} :
          encs = <<NewEnc(k, into(BackendEncoder(t)), 0)>>
    /\ backend = [t \in Tags |-> <<>>]
    /\ calls = <<>>
    /\ pc = "api"
    /\ input = [kind |-> "unit"]
    /\ idx = 0
    /\ loc = NoLocals
    /\ label_ret = "none"
    /\ ret = "none"
    /\ parked = NoOne
    /\ mcalls = <<>>

NextApi ==
    \/ Api_counter_f64
    \/ Api_counter_u64
    \/ Api_gauge_i64
    \/ Api_gauge_f64
    \/ Api_info
    \/ Api_histogram
    \/ Api_family
    \/ Api_label
    \/ Api_label_key
    \/ Api_key_write
    \/ Api_label_value
    \/ Api_value_write
    \/ Api_finish
    \/ Api_drop

SpecApi == InitApi /\ [][NextApi]_vars

(* ------------ properties of the public operations (SpecApi) ------------ *)
\* The label set encoder a key encoder's label belongs to.
SetOf(k) == encs[encs[k].parent].parent

\* The call c starts a label of label set ls: it opens a label encoder on
\* ls or a key encoder on one of the label encoders of ls.
StartsLabel(c, ls) ==
    \/ c.op = "encode_label" /\ c.enc = ls
    \/ c.op = "encode_label_key" /\ encs[c.enc].parent = ls

\* The calls that handed out a key encoder.
KeyCalls == {i \in 1..Len(calls) : calls[i].op = "encode_label_key" /\ calls[i].new # 0}

\* The calls of encode_label_value on key encoder k.
Completions(k) ==
    {j \in 1..Len(calls) : calls[j].op = "encode_label_value" /\ calls[j].enc = k}

\* C2 as stated: after a key encoder has been obtained, a label of the same
\* label set is started only after encode_label_value was called on it.
C2_CompletedBeforeSibling ==
    \A i \in KeyCalls :
        LET k == calls[i].new
        IN  \A m \in (i + 1)..Len(calls) :
                StartsLabel(calls[m], SetOf(k)) => \E j \in Completions(k) : j < m

\* C2: while a key encoder, or the value encoder made from it, is live, no
\* label of the same label set has been started since that key encoder was
\* obtained, and none is started between an encode_label_key and the
\* encode_label_value consuming its key encoder; a key encoder can however
\* be dropped without encode_label_value, and then a sibling may start.
C2_NoSiblingWhileKeyLive ==
    \A i \in KeyCalls :
        LET k == calls[i].new
            later == {m \in (i + 1)..Len(calls) : StartsLabel(calls[m], SetOf(k))}
        IN  /\ encs[k].st = "live" => later = {}
            /\ \A j \in Completions(k) :
                  /\ \A m \in later : m > j
                  /\ (calls[j].new # 0 /\ encs[calls[j].new].st = "live") => later = {}
            /\ later # {} => encs[k].st # "live"

\* C2 witness: a key encoder was dropped without encode_label_value and a
\* second key encoder was then obtained from the same label encoder.
C2_Witness ==
    \E i \in KeyCalls : \E m \in KeyCalls :
        /\ i < m /\ calls[m].enc = calls[i].enc
        /\ encs[calls[i].new].st = "dropped"
        /\ Completions(calls[i].new) = {}

\* C4 as stated: after any operation other than a write, no further
\* operation is invoked on the same encoder instance.
C4_AllSingleUse ==
    \A i \in 1..Len(calls) : \A j \in (i + 1)..Len(calls) :
        calls[i].op # "write_str" => calls[j].enc # calls[i].enc

ConsumingOps == {"encode_label_value", "finish"}

\* C4: encode_label_value and finish consume their encoder: it is moved and
\* no later operation is invoked on it. The MetricEncoder operations,
\* encode_family, encode_label and encode_label_key take &mut self: they
\* leave their encoder with the client, never moved, so that it can be
\* operated again once the encoder it handed out is released.
C4_ConsumingOnly ==
    \A i \in 1..Len(calls) :
        IF calls[i].op \in ConsumingOps
        THEN /\ encs[calls[i].enc].st = "moved"
             /\ \A j \in (i + 1)..Len(calls) : calls[j].enc # calls[i].enc
        ELSE /\ encs[calls[i].enc].kind \in {"MetricEncoder", "LabelSetEncoder", "LabelEncoder"}
                   => encs[calls[i].enc].st # "moved"
             /\ encs[calls[i].enc].st = "moved" =>
                   \E j \in (i + 1)..Len(calls) :
                       calls[j].enc = calls[i].enc /\ calls[j].op \in ConsumingOps

\* C4 witness: a value encoder has been finished, and encode_label has been
\* invoked a second time on the same label set encoder.
C4_Witness ==
    /\ \E i \in 1..Len(calls) : calls[i].op = "finish"
    /\ \E i \in 1..Len(calls) : \E j \in (i + 1)..Len(calls) :
          /\ calls[i].op = "encode_label" /\ calls[j].op = "encode_label"
          /\ calls[i].enc = calls[j].enc

RECURSIVE Ancestors(_)
\* The encoders an encoder borrows from, directly or through its parent.
Ancestors(c) ==
    IF encs[c].parent = 0 THEN {}
    ELSE {encs[c].parent} \cup Ancestors(encs[c].parent)

\* The step invokes an operation on e or releases e.
Touches(e) ==
    \/ Len(calls') = Len(calls) + 1 /\ Last(calls').enc = e
    \/ encs[e].st = "live" /\ encs'[e].st # "live"

\* C5: no step invokes an operation on, or releases, an encoder while an
\* encoder obtained from it (directly or further down) is live; the parent
\* is operated again only once its child has been finished or dropped.
C5_NestedOwnership ==
    [][\A e \in DOMAIN encs :
          Touches(e) => ~\E c \in DOMAIN encs : encs[c].st = "live" /\ e \in Ancestors(c)]_vars

\* C5 witness: a label encoder was obtained by encode_label, a key encoder
\* was obtained from it and written to, both were dropped, and the label
\* set encoder was then operated again.
C5_Witness ==
    \E i \in 1..Len(calls) :
        /\ calls[i].op = "encode_label"
        /\ encs[calls[i].new].st = "dropped"
        /\ \E j \in (i + 1)..Len(calls) : \E k \in (j + 1)..Len(calls) :
              /\ calls[j].op = "write_str" /\ encs[calls[j].enc].parent = calls[i].new
              /\ calls[k].enc = calls[i].enc

\* C6: the backend the facade holds has received exactly the operations the
\* client invoked, each once, under the same name, with the same arguments
\* and in the same order, and the client got the result the backend
\* answered; the other backend has received nothing. A bare backend called
\* directly with the same operations holds the same log.
C6_Forwarding ==
    LET t == encs[1].tag
    IN  /\ backend[t] = [i \in 1..Len(calls) |->
                            Call(calls[i].op, calls[i].enc, calls[i].args, calls[i].ret)]
        /\ \A u \in Tags \ {t} : backend[u] = <<>>

\* C6 witness: a protobuf facade has forwarded a failing encode_histogram
\* and an encode_family that returned a nested encoder.
C6_Witness ==
    /\ encs[1].tag = "Protobuf"
    /\ \E i \in 1..Len(calls) : calls[i].op = "encode_histogram" /\ calls[i].ret = "Err"
    /\ \E i \in 1..Len(calls) : calls[i].op = "encode_family" /\ calls[i].new # 0

\* The caller of the operation invoked in this step sees an error.
SeesErr == Last(calls').ret = "Err"

\* Whenever the backend can fail in a fallible operation on self, the
\* caller of that operation gets the error.
ErrorsReach(self) ==
    /\ \A a \in CounterArgsF64 :
          ENABLED encode_counter_f64(self, a[1], a[2], "Err")
          => ENABLED (encode_counter_f64(self, a[1], a[2], "Err") /\ SeesErr)
    /\ \A a \in CounterArgsU64 :
          ENABLED encode_counter_u64(self, a[1], a[2], "Err")
          => ENABLED (encode_counter_u64(self, a[1], a[2], "Err") /\ SeesErr)
    /\ \A v \in I64s :
          ENABLED encode_gauge_i64(self, v, "Err")
          => ENABLED (encode_gauge_i64(self, v, "Err") /\ SeesErr)
    /\ \A v \in F64s :
          ENABLED encode_gauge_f64(self, v, "Err")
          => ENABLED (encode_gauge_f64(self, v, "Err") /\ SeesErr)
    /\ \A ls \in LabelSetArgs :
          ENABLED encode_info(self, ls, "Err")
          => ENABLED (encode_info(self, ls, "Err") /\ SeesErr)
    /\ \A a \in HistogramArgs :
          ENABLED encode_histogram(self, a[1], a[2], a[3], a[4], "Err")
          => ENABLED (encode_histogram(self, a[1], a[2], a[3], a[4], "Err") /\ SeesErr)
    /\ \A ls \in LabelSetArgs :
          ENABLED encode_family(self, ls, "Err")
          => ENABLED (encode_family(self, ls, "Err") /\ SeesErr)
    /\ ENABLED encode_label_key(self, "Err")
          => ENABLED (encode_label_key(self, "Err") /\ SeesErr)
    /\ \A s \in Keys :
          ENABLED key_write_str(self, s, "Err")
          => ENABLED (key_write_str(self, s, "Err") /\ SeesErr)
    /\ ENABLED encode_label_value(self, "Err")
          => ENABLED (encode_label_value(self, "Err") /\ SeesErr)
    /\ \A s \in Strs :
          ENABLED value_write_str(self, s, "Err")
          => ENABLED (value_write_str(self, s, "Err") /\ SeesErr)
    /\ ENABLED finish(self, "Err")
          => ENABLED (finish(self, "Err") /\ SeesErr)

\* C8 as stated: every public operation of every encoder, encode_label
\* included, can end in an error that its caller sees.
C8_EveryOperationCanFail ==
    \A self \in DOMAIN encs :
        /\ ErrorsReach(self)
        /\ ENABLED encode_label(self) => ENABLED (encode_label(self) /\ SeesErr)

\* C8: every public operation of every encoder except
\* LabelSetEncoder::encode_label returns a Result through which a failure
\* of the backend in that operation reaches the caller, and every error a
\* backend answered was returned to the caller; encode_label returns the
\* LabelEncoder itself and has no error outcome.
C8_ErrorsSurface ==
    /\ \A self \in DOMAIN encs : ErrorsReach(self)
    /\ \A t \in Tags : \A i \in 1..Len(backend[t]) :
          backend[t][i].ret = "Err" =>
              \E j \in 1..Len(calls) :
                  /\ calls[j].op = backend[t][i].op /\ calls[j].enc = backend[t][i].enc
                  /\ calls[j].ret = "Err"
    /\ \A i \in 1..Len(calls) :
          calls[i].op = "encode_label" <=> calls[i].ret \notin Outcomes

\* C8 witness: encode_label has handed out a label encoder, and an
\* encode_label_key on it has returned the backend's error.
C8_Witness ==
    /\ Len(calls) >= 2
    /\ calls[Len(calls) - 1].op = "encode_label"
    /\ Last(calls).op = "encode_label_key" /\ Last(calls).ret = "Err"
    /\ Last(calls).enc = calls[Len(calls) - 1].new

(* --------------------- the backend along a chain ----------------------- *)
\* C16: every facade encoder holds exactly one backend encoder, the one its
\* variant names, and every encoder obtained from an encoder (the nested
\* metric encoder, the label, key and value encoders) has the variant of
\* the encoder it was obtained from, so a whole chain stays in the format
\* of its root.
C16_VariantFixed ==
    /\ \A e \in DOMAIN encs :
          /\ encs[e].tag \in Tags
          /\ encs[e].inner.fmt = encs[e].tag
          /\ encs[e].tag = encs[1].tag
    /\ \A i \in 1..Len(calls) :
          calls[i].new # 0 => encs[calls[i].new].tag = encs[calls[i].enc].tag

\* C16 witness: a chain rooted in a protobuf encoder has reached the value
\* encoder of a label.
C16_Witness ==
    \E e \in DOMAIN encs :
        /\ encs[e].kind = "LabelValueEncoder" /\ encs[e].tag = "Protobuf"
        /\ \E i \in 1..Len(calls) : calls[i].new = e /\ calls[i].op = "encode_label_value"

(* ------------------ consuming transitions are final -------------------- *)
\* The step is an operation invoked on e.
CalledOn(e) == Len(calls') = Len(calls) + 1 /\ Last(calls').enc = e

\* C17: a step that invokes encode_label_value on a key encoder or finish
\* on a value encoder leaves that encoder moved whether the operation
\* returned Ok or Err, and no step invokes an operation on a moved encoder
\* or brings it back, so neither a write nor a second encode_label_value
\* or finish can follow.
C17_StageClosed ==
    [][\A e \in DOMAIN encs :
          /\ (CalledOn(e) /\ Last(calls').op \in ConsumingOps) => encs'[e].st = "moved"
          /\ encs[e].st = "moved" => (encs'[e].st = "moved" /\ ~CalledOn(e))]_vars

\* C17 witness: an encode_label_value that returned Err has consumed its
\* key encoder, a finish that returned Err has consumed its value encoder,
\* after the client had gone on.
C17_Witness ==
    \E i, j \in 1..Len(calls) :
        /\ i < j
        /\ calls[i].op = "encode_label_value" /\ calls[i].ret = "Err"
        /\ encs[calls[i].enc].st = "moved"
        /\ calls[j].op = "finish" /\ calls[j].ret = "Err"
        /\ encs[calls[j].enc].st = "moved"

(* ----------------------- histogram buckets ----------------------------- *)
\* The bucket upper bounds are in ascending order.
InOrder(b) == \A i \in 1..Len(b) - 1 : b[i][1] <= b[i + 1][1]

\* C18: encode_histogram hands the backend the sum, the count, the
\* buckets in the order supplied and the exemplars unchanged, whatever the
\* order of the buckets, and returns what the backend answered.
C18_HistogramAsSupplied ==
    LET t == encs[1].tag
    IN  \A i \in 1..Len(calls) :
            calls[i].op = "encode_histogram" =>
                /\ calls[i].args \in HistogramArgs
                /\ backend[t][i].op = "encode_histogram"
                /\ backend[t][i].args = calls[i].args
                /\ backend[t][i].ret = calls[i].ret

\* C18 witness: a histogram whose buckets are out of order has been
\* forwarded and the call returned Ok.
C18_Witness ==
    \E i \in 1..Len(calls) :
        /\ calls[i].op = "encode_histogram" /\ calls[i].ret = "Ok"
        /\ ~InOrder(calls[i].args[3])
        /\ backend[encs[1].tag][i].args[3] = calls[i].args[3]

(* ------------------- the built-in key and value impls ------------------ *)
\* Text is a sequence of characters.
Digits == <<"0", "1", "2", "3", "4", "5", "6", "7", "8", "9">>

Digit(d) == Digits[d + 1]

\* String::as_str: the characters the String owns
as_str(x) == x.bytes

\* <Cow<str> as AsRef<str>>::as_ref: the borrowed text, or the owned String's
cow_as_ref(c) == IF c.variant = "Borrowed" THEN c.s ELSE as_str(c.s)

\* itoa::Buffer::format: the decimal digits of an unsigned integer
RECURSIVE itoa_format(_)
itoa_format(n) ==
    IF n < 10 THEN <<Digit(n)>> ELSE Append(itoa_format(n \div 10), Digit(n % 10))

\* dtoa::Buffer::format: the text the dtoa crate returns for the double x.
\* The crate is outside this repository; its text is left uninterpreted.
dtoa_format(x) == [dtoa |-> x]

\* impl EncodeLabelKey for String: EncodeLabelKey::encode(&self.as_str(), encoder)
EncodeLabelKey_String(ke, key, r) == EncodeLabelKey_str(ke, as_str(key), r)

\* Mutant of EncodeLabelValue_String: the String is written in its Debug
\* form, between quotes.
EncodeLabelValue_String_quoted(ve, value, r) ==
    EncodeLabelValue_str(ve, <<"\"">> \o as_str(value) \o <<"\"">>, r)

\* impl EncodeLabelValue for String: EncodeLabelValue::encode(&self.as_str(), encoder)
EncodeLabelValue_String(ve, value, r) == EncodeLabelValue_str(ve, as_str(value), r)

\* impl EncodeLabelKey for Cow<str>: EncodeLabelKey::encode(&self.as_ref(), encoder)
EncodeLabelKey_Cow(ke, key, r) == EncodeLabelKey_str(ke, cow_as_ref(key), r)

\* impl EncodeLabelValue for Cow<str>: EncodeLabelValue::encode(&self.as_ref(), encoder)
EncodeLabelValue_Cow(ve, value, r) == EncodeLabelValue_str(ve, cow_as_ref(value), r)

\* impl EncodeLabelValue for f64: encoder.write_str(dtoa::Buffer::new().format(*self))
EncodeLabelValue_f64(ve, value, r) == value_write_str(ve, dtoa_format(value), r)

\* Mutant of EncodeLabelValue_u64: the integer is written with its sign.
EncodeLabelValue_u64_signed(ve, value, r) ==
    value_write_str(ve, <<"+">> \o itoa_format(value), r)

\* impl EncodeLabelValue for u64: encoder.write_str(itoa::Buffer::new().format(*self))
EncodeLabelValue_u64(ve, value, r) == value_write_str(ve, itoa_format(value), r)

\* The texts, integers and floats the impls are run on. A float is a binary
\* double: its sign bit, its 11 exponent bits and its 52 fraction bits, the
\* fraction in four groups of 13 bits, most significant first.
Texts == {<<>>, <<"G", "E", "T">>, <<"2", "0", "0">>}

Strings == {[bytes |-> t] : t \in Texts}

BorrowedCows == {[variant |-> "Borrowed", s |-> t] : t \in Texts}

OwnedCows == {[variant |-> "Owned", s |-> x] : x \in Strings}

LabelU64s == {0, 7, 10, 42, 100, 1009, 65535, 2147483647}

F64(sign, exponent, fraction) ==
    [sign |-> sign, exponent |-> exponent, fraction |-> fraction]

\* 0.0, -0.0, 1.0, 1.5, -2.5, 0.1, 1e-7, 1.5e22, inf, -inf and a NaN
LabelF64s ==
    {F64(0, 0, <<0, 0, 0, 0>>), F64(1, 0, <<0, 0, 0, 0>>),
     F64(0, 1023, <<0, 0, 0, 0>>), F64(0, 1023, <<4096, 0, 0, 0>>),
     F64(1, 1024, <<2048, 0, 0, 0>>), F64(0, 1019, <<4915, 1638, 3276, 6554>>),
     F64(0, 999, <<5551, 7334, 5605, 3912>>), F64(0, 1096, <<4818, 3490, 2982, 91>>),
     F64(0, 2047, <<0, 0, 0, 0>>), F64(1, 2047, <<0, 0, 0, 0>>),
     F64(0, 2047, <<4096, 0, 0, 0>>)}

\* The values of one type, handed to the key or to the value trait.
Of(as, ty, S) == {[as |-> as, ty |-> ty, v |-> x] : x \in S}

ValueInputs ==
    <<Of("key", "str", Texts), Of("key", "String", Strings),
      Of("key", "Cow", BorrowedCows), Of("key", "Cow", OwnedCows),
      Of("value", "str", Texts), Of("value", "String", Strings),
      Of("value", "Cow", BorrowedCows), Of("value", "Cow", OwnedCows),
      Of("value", "u64", LabelU64s), Of("value", "f64", LabelF64s)>>

\* One call of EncodeLabelKey::encode / EncodeLabelValue::encode on the
\* encoder handed in by reference; what it returns is kept in ret.
Encodes(as, ty) == pc = "value" /\ input.as = as /\ input.ty = ty

Returned ==
    /\ ret' = Last(calls').ret
    /\ pc' = "done"
    /\ UNCHANGED <<input, aux, idx, loc, label_ret>>

Key_str ==
    /\ Encodes("key", "str")
    /\ \E r \in Outcomes : EncodeLabelKey_str(encoder, input.v, r)
    /\ Returned

Key_String ==
    /\ Encodes("key", "String")
    /\ \E r \in Outcomes : EncodeLabelKey_String(encoder, input.v, r)
    /\ Returned

Key_Cow ==
    /\ Encodes("key", "Cow")
    /\ \E r \in Outcomes : EncodeLabelKey_Cow(encoder, input.v, r)
    /\ Returned

Value_str ==
    /\ Encodes("value", "str")
    /\ \E r \in Outcomes : EncodeLabelValue_str(encoder, input.v, r)
    /\ Returned

Value_String ==
    /\ Encodes("value", "String")
    /\ \E r \in Outcomes : EncodeLabelValue_String(encoder, input.v, r)
    /\ Returned

Value_Cow ==
    /\ Encodes("value", "Cow")
    /\ \E r \in Outcomes : EncodeLabelValue_Cow(encoder, input.v, r)
    /\ Returned

Value_f64 ==
    /\ Encodes("value", "f64")
    /\ \E r \in Outcomes : EncodeLabelValue_f64(encoder, input.v, r)
    /\ Returned

Value_u64 ==
    /\ Encodes("value", "u64")
    /\ \E r \in Outcomes : EncodeLabelValue_u64(encoder, input.v, r)
    /\ Returned

InitValue ==
    /\ \E i \in DOMAIN ValueInputs : input \in ValueInputs[i]
    /\ \E t \in Tags :
          encs = <<NewEnc(IF input.as = "key" THEN "LabelKeyEncoder"
                                              ELSE "LabelValueEncoder",
                          into(BackendEncoder(t)), 0)>>
    /\ backend = [t \in Tags |-> <<>>]
    /\ calls = <<>>
    /\ pc = "value"
    /\ idx = 0
    /\ loc = NoLocals
    /\ label_ret = "none"
    /\ ret = "none"
    /\ parked = NoOne
    /\ mcalls = <<>>

NextValue ==
    \/ Key_str
    \/ Key_String
    \/ Key_Cow
    \/ Value_str
    \/ Value_String
    \/ Value_Cow
    \/ Value_f64
    \/ Value_u64

SpecValue == InitValue /\ [][NextValue]_vars

(* --------------------- what the impls have written --------------------- *)
\* The text of the one write the impl made.
Written == calls[1].args[1]

\* The impl made exactly one write, into the encoder it was handed, started
\* no stage and returned the result of that write.
OneWrite ==
    /\ Len(calls) = 1
    /\ calls[1].op = "write_str" /\ calls[1].enc = encoder /\ calls[1].new = 0
    /\ ret = calls[1].ret
    /\ backend[encs[encoder].tag] = <<Call("write_str", encoder, <<Written>>, ret)>>
    /\ Len(encs) = 1 /\ encs[encoder].st = "live"

IsDigits(t) == \A i \in 1..Len(t) : \E d \in 0..9 : t[i] = Digit(d)

DigitValue(c) == CHOOSE d \in 0..9 : Digit(d) = c

\* str::parse::<u64> on a string of digits
RECURSIVE ParseDecimal(_)
ParseDecimal(t) ==
    IF t = <<>> THEN 0
    ELSE 10 * ParseDecimal(SubSeq(t, 1, Len(t) - 1)) + DigitValue(Last(t))

\* C14: the u64 impl writes, in one write, the plain decimal form of the
\* value: at least one character, digits only, no leading zero unless the
\* value is 0, no sign or grouping; parsing the text gives the value back.
C14_DecimalU64 ==
    (pc = "done" /\ input.ty = "u64") =>
        /\ OneWrite
        /\ Len(Written) >= 1
        /\ IsDigits(Written)
        /\ Len(Written) > 1 => Written[1] # "0"
        /\ input.v = 0 => Written = <<"0">>
        /\ ParseDecimal(Written) = input.v

\* C14 witness: the largest value of the model has been written, in full.
C14_Witness ==
    /\ pc = "done" /\ input.ty = "u64" /\ input.v = 2147483647
    /\ Written = <<"2", "1", "4", "7", "4", "8", "3", "6", "4", "7">>

\* The characters of a &str, a String or a Cow<str>.
TextOf(x) ==
    CASE x.ty = "str" -> x.v
      [] x.ty = "String" -> x.v.bytes
      [] x.ty = "Cow" -> IF x.v.variant = "Borrowed" THEN x.v.s ELSE x.v.s.bytes

\* C19: for a &str, a String and a Cow<str> alike, as a key and as a value,
\* encode makes the single write of the text into the encoder it was
\* handed, advances no stage and returns the result of that write.
C19_TextImplsAgree ==
    (pc = "done" /\ input.ty \in {"str", "String", "Cow"}) =>
        /\ OneWrite
        /\ Written = TextOf(input)
        /\ encs[encoder].kind =
              IF input.as = "key" THEN "LabelKeyEncoder" ELSE "LabelValueEncoder"

\* C19 witness: an owned Cow has been written as a key and the write's
\* error was returned.
C19_Witness ==
    /\ pc = "done" /\ input.as = "key" /\ input.ty = "Cow"
    /\ input.v.variant = "Owned" /\ Written = <<"G", "E", "T">>
    /\ ret = "Err"

(* ------------------------ Box<dyn EncodeMetric> ------------------------ *)
MaxBoxes == 2
MaxQueries == 1

\* enum MetricType
MetricTypes == {"Counter", "Gauge", "Histogram", "Info", "Unknown"}

\* The metrics a box can hold: each has its type and the operation its
\* encode invokes on the encoder it is handed (none: it returns Ok at once).
HeldMetrics ==
    {[is_box |-> FALSE, metric_type |-> "Counter", op |-> "encode_counter_u64"],
     [is_box |-> FALSE, metric_type |-> "Gauge", op |-> "encode_gauge_i64"],
     [is_box |-> FALSE, metric_type |-> "Histogram", op |-> "encode_histogram"],
     [is_box |-> FALSE, metric_type |-> "Info", op |-> "encode_info"],
     [is_box |-> FALSE, metric_type |-> "Unknown", op |-> "none"]}

\* Box::new(m) as Box<dyn EncodeMetric>
Box_new(m) == [is_box |-> TRUE, held |-> m]

RECURSIVE Boxed(_, _)
Boxed(m, n) == IF n = 0 THEN m ELSE Box_new(Boxed(m, n - 1))

\* <Box<T> as Deref>::deref: the value the box holds
deref(b) == b.held

RECURSIVE metric_type(_)

\* Mutant of Box_metric_type: the box answers for itself.
Box_metric_type_unknown(self) == "Unknown"

\* impl EncodeMetric for Box<dyn EncodeMetric>: self.deref().metric_type()
Box_metric_type(self) == metric_type(deref(self))

\* EncodeMetric::metric_type, dispatched on the dynamic type of the metric
metric_type(m) == IF m.is_box THEN Box_metric_type(m) ELSE m.metric_type

\* One invocation of a method of EncodeMetric, and what it returned.
Entry(method, self, e, r) == [method |-> method, self |-> self, encoder |-> e, ret |-> r]

EncodeEntries == {k \in DOMAIN mcalls : mcalls[k].method = "encode"}

\* The invocations of encode that have not returned; the innermost runs.
Pending == {k \in EncodeEntries : mcalls[k].ret = "pending"}

Innermost == CHOOSE k \in Pending : \A j \in Pending : j <= k

\* The invocation made by the running body of invocation k.
Callee(k) == CHOOSE j \in EncodeEntries : j > k /\ \A i \in EncodeEntries : i > k => j <= i

\* The registry calls encode on the boxed metric with a fresh encoder.
Registry_encode ==
    /\ pc = "idle"
    /\ mcalls' = Append(mcalls, Entry("encode", input, encoder, "pending"))
    /\ pc' = "encode"
    /\ UNCHANGED <<encs, backend, calls, input, parked, idx, loc, label_ret, ret>>

\* impl EncodeMetric for Box<dyn EncodeMetric>: self.deref().encode(encoder)
Box_encode ==
    /\ pc = "encode" /\ mcalls[Innermost].self.is_box
    /\ mcalls' = Append(mcalls, Entry("encode", deref(mcalls[Innermost].self),
                                      mcalls[Innermost].encoder, "pending"))
    /\ UNCHANGED <<encs, backend, calls, pc, input, parked, idx, loc, label_ret, ret>>

\* The encode of the held metric: its operation on the encoder it was handed.
Held_encode ==
    /\ pc = "encode" /\ ~mcalls[Innermost].self.is_box
    /\ LET m == mcalls[Innermost].self
           e == mcalls[Innermost].encoder
       IN  \E r \in Outcomes :
              CASE m.op = "encode_counter_u64" -> encode_counter_u64(e, 42, NoExemplar, r)
                [] m.op = "encode_gauge_i64" -> encode_gauge_i64(e, -7, r)
                [] m.op = "encode_histogram" ->
                      encode_histogram(e, 42, 5, <<<<10, 3>>, <<20, 5>>>>, NoExemplar, r)
                [] m.op = "encode_info" -> encode_info(e, <<<<"status", "200">>>>, r)
                [] m.op = "none" -> r = "Ok" /\ UNCHANGED <<encs, backend, calls>>
    /\ pc' = "held"
    /\ UNCHANGED <<input, aux, idx, loc, label_ret, ret>>

\* The held metric's encode returns the result of its operation; the
\* encoder, moved into it, goes out of scope.
Held_return ==
    /\ pc = "held"
    /\ LET m == mcalls[Innermost].self
           r == IF m.op = "none" THEN "Ok" ELSE Last(calls).ret
       IN  mcalls' = [mcalls EXCEPT ![Innermost].ret = r]
    /\ encs' = DropAll({mcalls[Innermost].encoder})
    /\ pc' = "unwind"
    /\ UNCHANGED <<backend, calls, input, parked, idx, loc, label_ret, ret>>

\* Mutant of Box_return: the box answers Ok whatever the held metric returned.
Box_return_ok(k) == "Ok"

\* Box::encode returns what self.deref().encode(encoder) returned.
Box_return(k) == mcalls[Callee(k)].ret

\* A pending Box::encode returns to its caller, the outermost to the registry.
Box_unwind ==
    /\ pc = "unwind"
    /\ mcalls' = [mcalls EXCEPT ![Innermost].ret = Box_return(Innermost)]
    /\ IF Pending = {Innermost}
       THEN pc' = "done" /\ ret' = Box_return(Innermost)
       ELSE UNCHANGED <<pc, ret>>
    /\ UNCHANGED <<encs, backend, calls, input, parked, idx, loc, label_ret>>

Queries == Len(SelectSeq(mcalls, LAMBDA c : c.method = "metric_type"))

\* The registry asks the boxed metric for its type: before, during, after
\* or without an encode.
Registry_metric_type ==
    /\ Queries < MaxQueries
    /\ mcalls' = Append(mcalls, Entry("metric_type", input, 0, metric_type(input)))
    /\ UNCHANGED <<encs, backend, calls, pc, input, parked, idx, loc, label_ret, ret>>

InitBox ==
    /\ \E t \in Tags :
          encs = <<NewEnc("MetricEncoder", into(BackendEncoder(t)), 0)>>
    /\ backend = [t \in Tags |-> <<>>]
    /\ calls = <<>>
    /\ pc = "idle"
    /\ \E m \in HeldMetrics, n \in 1..MaxBoxes : input = Boxed(m, n)
    /\ idx = 0
    /\ loc = NoLocals
    /\ label_ret = "none"
    /\ ret = "none"
    /\ parked = NoOne
    /\ mcalls = <<>>

NextBox ==
    \/ Registry_encode
    \/ Box_encode
    \/ Held_encode
    \/ Held_return
    \/ Box_unwind
    \/ Registry_metric_type

SpecBox == InitBox /\ [][NextBox]_vars

\* The metric at the bottom of a nest of boxes.
RECURSIVE HeldIn(_)
HeldIn(m) == IF m.is_box THEN HeldIn(m.held) ELSE m

\* The invocations of encode, in the order they were made.
Encodes_made == SelectSeq(mcalls, LAMBDA c : c.method = "encode")

\* C13: encode on a box reaches the held metric's encode exactly once, with
\* the encoder the box was handed, and returns what that encode returned;
\* metric_type on a box returns the held metric's type, whenever it is
\* asked, and a step that asks for it operates no encoder.
C13_BoxForwards ==
    /\ [](/\ \A k \in 1..Len(Encodes_made) :
               /\ Encodes_made[k].encoder = encoder
               /\ Encodes_made[k].self =
                     IF k = 1 THEN input ELSE Encodes_made[k - 1].self.held
          /\ Len(SelectSeq(Encodes_made, LAMBDA c : ~c.self.is_box)) <= 1
          /\ Len(calls) <= 1
          /\ \A k \in DOMAIN mcalls :
               mcalls[k].method = "metric_type" =>
                   mcalls[k].ret = HeldIn(input).metric_type
          /\ pc = "done" =>
               /\ Len(SelectSeq(Encodes_made, LAMBDA c : ~c.self.is_box)) = 1
               /\ \A k \in 1..Len(Encodes_made) : Encodes_made[k].ret = ret
               /\ ret = IF calls = <<>> THEN "Ok" ELSE calls[1].ret
               /\ calls # <<>> => calls[1].op = HeldIn(input).op)
    /\ [][(Len(mcalls') > Len(mcalls) /\ Last(mcalls').method = "metric_type")
             => UNCHANGED <<encs, backend, calls>>]_vars

\* C13 witness: a histogram behind two boxes was asked for its type while
\* its encode was running, and the encode returned the held metric's error.
C13_Witness ==
    /\ pc = "done" /\ ret = "Err"
    /\ input = Boxed([is_box |-> FALSE, metric_type |-> "Histogram",
                      op |-> "encode_histogram"], 2)
    /\ \E k \in DOMAIN mcalls :
          /\ mcalls[k].method = "metric_type" /\ mcalls[k].ret = "Histogram"
          /\ 1 < k /\ k < Len(mcalls)

(* ------------------------- two encodes at once ------------------------- *)
MaxParLabels == 2

\* The i-th label of the label sets the two encodes are run on.
ParLabel(i) == IF i % 2 = 1 THEN <<"method", "GET">> ELSE <<"status", "200">>

ParInputs ==
    {[kind |-> "slice", elems |-> [i \in 1..n |-> ParLabel(i)]] : n \in 0..MaxParLabels}

\* The encode being stepped: its encoders, its sink and its position.
Me ==
    [id |-> 3 - parked.id, encs |-> encs, backend |-> backend, calls |-> calls,
     pc |-> pc, input |-> input, idx |-> idx, loc |-> loc,
     label_ret |-> label_ret, ret |-> ret]

\* An encode about to start on its own label set encoder and its own sink.
Fresh(id, t, in) ==
    [id |-> id, encs |-> <<NewEnc("LabelSetEncoder", into(BackendEncoder(t)), 0)>>,
     backend |-> [u \in Tags |-> <<>>], calls |-> <<>>,
     pc |-> "start", input |-> in, idx |-> 0, loc |-> NoLocals,
     label_ret |-> "none", ret |-> "none"]

\* The scheduler takes the running encode off and puts the other one on.
Switch ==
    /\ parked.id # 0
    /\ parked' = Me
    /\ encs' = parked.encs
    /\ backend' = parked.backend
    /\ calls' = parked.calls
    /\ pc' = parked.pc
    /\ input' = parked.input
    /\ idx' = parked.idx
    /\ loc' = parked.loc
    /\ label_ret' = parked.label_ret
    /\ ret' = parked.ret
    /\ UNCHANGED mcalls

InitPar ==
    /\ \E t \in Tags :
          encs = <<NewEnc("LabelSetEncoder", into(BackendEncoder(t)), 0)>>
    /\ backend = [t \in Tags |-> <<>>]
    /\ calls = <<>>
    /\ pc = "start"
    /\ input \in ParInputs
    /\ idx = 0
    /\ loc = NoLocals
    /\ label_ret = "none"
    /\ ret = "none"
    /\ \E t \in Tags, in \in ParInputs : parked = Fresh(2, t, in)
    /\ mcalls = <<>>

NextPar ==
    \/ EncodeLabelSet_slice
    \/ Slice_next
    \/ Slice_end
    \/ Label_key
    \/ Label_key_encode
    \/ Label_value
    \/ Label_value_encode
    \/ Label_finish
    \/ Label_return
    \/ Slice_try
    \/ Switch

SpecPar == InitPar /\ [][NextPar]_vars

\* The encode with the given id.
Proc(i) == IF parked.id = i THEN parked ELSE Me

\* The sink of an encode: what the backend of its own encoder chain received.
SinkOf(P) == P.backend[P.encs[encoder].tag]

SinkShapes(P) ==
    [i \in 1..Len(SinkOf(P)) |->
        <<SinkOf(P)[i].op, P.encs[SinkOf(P)[i].enc].kind, SinkOf(P)[i].args>>]

\* The sink holds what the encode of P's label set produces on its own:
\* the operations of its own elements in order, all of them once it has
\* returned Ok, those up to the failed one once it has returned the error.
AsAlone(P) ==
    /\ IsPrefix(SinkShapes(P), ExpectedSet(Elems(P.input)))
    /\ \A i \in 1..Len(SinkOf(P)) - 1 : SinkOf(P)[i].ret # "Err"
    /\ \A u \in Tags \ {P.encs[encoder].tag} : P.backend[u] = <<>>
    /\ (P.pc = "done" /\ P.ret = "Ok") =>
          /\ SinkShapes(P) = ExpectedSet(Elems(P.input))
          /\ \A i \in 1..Len(SinkOf(P)) : SinkOf(P)[i].ret # "Err"
    /\ (P.pc = "done" /\ P.ret = "Err") =>
          SinkOf(P) # <<>> /\ Last(SinkOf(P)).ret = "Err"

\* C11: of two encodes stepped in any interleaving, each on its own
\* encoders and its own sink, a step of one leaves every encoder and the
\* sink of the other as they were, and each sink holds, all along and at
\* the end, what that encode produces when it runs alone.
C11_Isolated ==
    /\ [](AsAlone(Proc(1)) /\ AsAlone(Proc(2)))
    /\ [][/\ parked'.id = parked.id => parked' = parked
          /\ parked'.id # parked.id => (parked' = Me /\ Me' = parked)]_vars

\* C11 witness: two encodes into sinks of the same format are both under
\* way, each having written its first key, and the second is the longer.
C11_Witness ==
    /\ Me.encs[encoder].tag = parked.encs[encoder].tag
    /\ Me.pc = "value" /\ parked.pc = "value"
    /\ Len(SinkOf(Me)) = 3 /\ Len(SinkOf(parked)) = 3
    /\ Len(Proc(1).input.elems) < Len(Proc(2).input.elems)

\* C12: two encodes of the same label set through fresh label set encoders
\* of the same backend that both returned Ok have performed the same
\* operations with the same results, whichever ran first and however they
\* were interleaved.
C12_Deterministic ==
    LET P == Proc(1)
        Q == Proc(2)
    IN  (/\ P.pc = "done" /\ Q.pc = "done"
         /\ P.ret = "Ok" /\ Q.ret = "Ok"
         /\ P.input = Q.input
         /\ P.encs[encoder].tag = Q.encs[encoder].tag)
        => (SinkOf(P) = SinkOf(Q) /\ P.calls = Q.calls)

\* C12 witness: the same two labels have been encoded twice into sinks of
\* the protobuf backend.
C12_Witness ==
    /\ Proc(1).pc = "done" /\ Proc(2).pc = "done"
    /\ Proc(1).ret = "Ok" /\ Proc(2).ret = "Ok"
    /\ Proc(1).input = Proc(2).input /\ Len(Proc(1).input.elems) = 2
    /\ Proc(1).encs[encoder].tag = "Protobuf" /\ Proc(2).encs[encoder].tag = "Protobuf"
    /\ Len(SinkOf(Proc(1))) = 12 /\ SinkOf(Proc(2)) = SinkOf(Proc(1))

====
